---------------------------- MODULE Spec2Model ----------------------------
(***************************************************************************)
(* State-machine model of the knitting pattern designer (src/jacquard.py): *)
(* the KnittingDesigner event handlers acting on the grid, the undo log,   *)
(* the selection, the clipboard and the marks.                             *)
(*                                                                         *)
(* The program's grid is 64 x 64 and its undo log holds 50 strokes; the    *)
(* model keeps the code's names grid_size, max_undo and max_colors and     *)
(* scales their values down so that the state space is finite and small.   *)
(* Every formula below is stated in terms of these names, never of the     *)
(* scaled numbers.                                                         *)
(***************************************************************************)
EXTENDS Integers, Sequences, FiniteSets, TLC

(***************************************************************************)
(* Bounds of the model.                                                    *)
(***************************************************************************)
\* self.grid_size (64 in the source), scaled
grid_size == 2
\* self.max_undo (50 in the source), scaled
max_undo == 2
\* self.max_colors (15 in the source), scaled
max_colors == 2
\* self.max_recent_colors (10 in the source), scaled
max_recent_colors == 2
\* number of palette slots, from the first, the painting specifications
\* select among
PaintSlots == 1
\* longest open stroke the model follows
MaxStroke == 4
\* number of consecutive undoable operations the observer remembers
MaxRun == 3
\* how far from the initial tile size the general specifications zoom
ZoomSpan == 1

(***************************************************************************)
(* Program constants.                                                      *)
(***************************************************************************)
min_tile_size == 50
max_tile_size == 200
init_tile_size == 100

default_color == "#f5f5f5"
first_color == "#3a6ea5"
white == "#ffffff"

\* a cell value of a project file that is no hex colour
not_a_color == "zzz"

None == <<>>

Cells == (0 .. grid_size - 1) \X (0 .. grid_size - 1)

Min(a, b) == IF a <= b THEN a ELSE b
Max(a, b) == IF a >= b THEN a ELSE b

VARIABLES
  \* ---- program state (attributes of KnittingDesigner) ----
  grid_data,             \* [Cells -> colour]
  colors,                \* the palette, a sequence of max_colors colours
  selected_color_index,  \* 0-based palette index, -1 in mark mode
  mark_mode,
  is_dragging,
  current_stroke,        \* sequence of <<row, col, old_color>>
  undo_history,          \* sequence of strokes, oldest first
  selection_start,       \* None or <<row, col>>
  selection_end,         \* None or <<row, col>>
  is_selecting,
  clipboard,             \* None or a sequence of rows of colours
  marked_tiles,          \* set of <<row, col>>
  mark_adding,           \* "unset" until the first mark-mode press
  tile_size,
  recent_colors,         \* sequence of colours, most recent first
  picker,                \* None, or <<p>> while colour picker p is open
  picker_result,         \* what ask_color returned last: None or <<colour>>
  settings_file,         \* knitting_settings.json: None or its content
  project_file,          \* knitting_project.json: None or its content
  \* ---- environment: which pointer buttons are held ----
  b1_down,
  b3_down,
  \* ---- observers (history variables, never read by the handlers) ----
  run,                   \* the operations that ran last, back to back
  undone,                \* number of undo calls that followed them
  drag_marks0,           \* the mark set at the press of the open mark drag
  drag_touched,          \* the cells touched so far by that drag
  drag_first,            \* None, or the first cell of the open mark drag
  saved,                 \* None, or <<grid and marks at the last save_project>>
  drag_adding_set,       \* the press of the open drag assigned mark_adding
  log_obs                \* the grids before the strokes of the undo log

prog_vars == <<grid_data, colors, selected_color_index, mark_mode, is_dragging,
               current_stroke, undo_history, selection_start, selection_end,
               is_selecting, clipboard, marked_tiles, mark_adding, tile_size,
               recent_colors, picker, picker_result, settings_file,
               project_file>>
env_vars == <<b1_down, b3_down>>
obs_vars == <<run, undone, drag_marks0, drag_touched, drag_first, saved,
              drag_adding_set, log_obs>>
vars == <<prog_vars, env_vars, obs_vars>>

(***************************************************************************)
(* Pure helpers, one per piece of handler code.                            *)
(***************************************************************************)

\* A handler of the main window: it runs only while no colour picker is
\* open (the picker grabs pointer and keyboard, l.55-57) and touches neither
\* the picker, the recent colours nor the files.  assigned tells whether
\* the press of the open drag has assigned mark_adding (l.858-859): a press
\* sets it, a release clears it, the other handlers keep it.
MainWindowPress(assigned) ==
  /\ picker = None
  /\ UNCHANGED <<recent_colors, picker, picker_result, settings_file,
                 project_file>>
  /\ UNCHANGED saved
  /\ drag_adding_set' = assigned

MainWindow == MainWindowPress(drag_adding_set)

\* colors[index] with Python's indexing: a negative index counts from the end
PyIndex(seq, index) ==
  IF index < 0 THEN seq[Len(seq) + index + 1] ELSE seq[index + 1]

\* get_tile_at: canvas coordinates to a cell, None outside the grid
get_tile_at(x, y) ==
  LET col == x \div tile_size
      row == y \div tile_size
  IN  IF 0 <= row /\ row < grid_size /\ 0 <= col /\ col < grid_size
      THEN <<row, col>>
      ELSE None

\* canvas coordinates the pointer events are drawn from: left of / above the
\* grid, the first pixel of every cell and the first pixel past the grid
PointerCoords == {-1} \cup {k * tile_size : k \in 0 .. grid_size}

\* paint_tile(row, col) on grid g with open stroke s
paint_tile_records_new(g, s, pos) ==
  LET color == PyIndex(colors, selected_color_index)
  IN  IF g[pos] = color
      THEN [grid |-> g, stroke |-> s]
      ELSE [grid |-> [g EXCEPT ![pos] = color],
            stroke |-> Append(s, <<pos[1], pos[2], color>>)]

paint_tile_always_records(g, s, pos) ==
  LET color == PyIndex(colors, selected_color_index)
      old_color == g[pos]
  IN  [grid |-> [g EXCEPT ![pos] = color],
       stroke |-> Append(s, <<pos[1], pos[2], old_color>>)]

paint_tile(g, s, pos) ==
  LET color == PyIndex(colors, selected_color_index)
      old_color == g[pos]
  IN  IF old_color = color
      THEN [grid |-> g, stroke |-> s]
      ELSE [grid |-> [g EXCEPT ![pos] = color],
            stroke |-> Append(s, <<pos[1], pos[2], old_color>>)]

\* toggle_mark(row, col)
toggle_mark(marks, pos) ==
  IF pos \in marks THEN marks \ {pos} ELSE marks \cup {pos}

\* on_canvas_drag in mark mode: the drag toggles the cell only in the
\* direction fixed at the press
DragTogglesAlways(pos) == TRUE

DragToggles(pos) ==
  \/ (mark_adding = "adding" /\ pos \notin marked_tiles)
  \/ (mark_adding = "removing" /\ pos \in marked_tiles)

\* undo_history.append(stroke); if len > max_undo: pop(0)
AppendStrokeDropsNewest(h, s) ==
  LET a == Append(h, s)
  IN  IF Len(a) > max_undo THEN SubSeq(a, 1, Len(a) - 1) ELSE a

AppendStroke(h, s) ==
  LET a == Append(h, s)
  IN  IF Len(a) > max_undo THEN Tail(a) ELSE a

\* the loop of undo: restore the stroke's triples in recorded order
RestoreStrokeKeepsGrid(g, s) == g

RECURSIVE RestoreStroke(_, _)
RestoreStroke(g, s) ==
  IF s = <<>> THEN g
  ELSE RestoreStroke([g EXCEPT ![<<s[1][1], s[1][2]>>] = s[1][3]], Tail(s))

\* _get_selection_bounds: None, or <<min_row, min_col, max_row, max_col>>
get_selection_bounds_unordered ==
  IF selection_start = None \/ selection_end = None THEN None
  ELSE <<selection_start[1], selection_start[2],
         selection_end[1], selection_end[2]>>

get_selection_bounds ==
  IF selection_start = None \/ selection_end = None THEN None
  ELSE <<Min(selection_start[1], selection_end[1]),
         Min(selection_start[2], selection_end[2]),
         Max(selection_start[1], selection_end[1]),
         Max(selection_start[2], selection_end[2])>>

\* the nested loops of copy_selection: rows of colours of the rectangle
CopyBlockRowsReversed(g, b) ==
  [i \in 1 .. (b[3] - b[1] + 1) |->
     [j \in 1 .. (b[4] - b[2] + 1) |-> g[<<b[3] - i + 1, b[2] + j - 1>>]]]

CopyBlock(g, b) ==
  [i \in 1 .. (b[3] - b[1] + 1) |->
     [j \in 1 .. (b[4] - b[2] + 1) |-> g[<<b[1] + i - 1, b[2] + j - 1>>]]]

\* the cells of a rectangle in the order the nested loops visit them
RectCells(b) ==
  LET w == b[4] - b[2] + 1
      h == b[3] - b[1] + 1
  IN  [k \in 1 .. (h * w) |-> <<b[1] + ((k - 1) \div w), b[2] + ((k - 1) % w)>>]

\* the clearing loop of cut_selection over the cells still to visit
RECURSIVE CutLoopRecordsDefault(_, _, _)
CutLoopRecordsDefault(g, undo_data, cells) ==
  IF cells = <<>> THEN [grid |-> g, undo_data |-> undo_data]
  ELSE LET pos == cells[1]
       IN  IF g[pos] # default_color
           THEN CutLoopRecordsDefault(
                  [g EXCEPT ![pos] = default_color],
                  Append(undo_data, <<pos[1], pos[2], default_color>>),
                  Tail(cells))
           ELSE CutLoopRecordsDefault(g, undo_data, Tail(cells))

RECURSIVE CutLoopRecordsAll(_, _, _)
CutLoopRecordsAll(g, undo_data, cells) ==
  IF cells = <<>> THEN [grid |-> g, undo_data |-> undo_data]
  ELSE LET pos == cells[1]
       IN  CutLoopRecordsAll([g EXCEPT ![pos] = default_color],
                             Append(undo_data, <<pos[1], pos[2], g[pos]>>),
                             Tail(cells))

RECURSIVE CutLoop(_, _, _)
CutLoop(g, undo_data, cells) ==
  IF cells = <<>> THEN [grid |-> g, undo_data |-> undo_data]
  ELSE LET pos == cells[1]
           old_color == g[pos]
       IN  IF old_color # default_color
           THEN CutLoop([g EXCEPT ![pos] = default_color],
                        Append(undo_data, <<pos[1], pos[2], old_color>>),
                        Tail(cells))
           ELSE CutLoop(g, undo_data, Tail(cells))

\* the <<row_offset, col_offset>> pairs in the order paste_selection visits them
ClipOffsets(clip) ==
  IF clip = None THEN <<>>
  ELSE LET w == Len(clip[1])
       IN  [k \in 1 .. (Len(clip) * w) |-> <<(k - 1) \div w, (k - 1) % w>>]

InGrid(r, c) == 0 <= r /\ r < grid_size /\ 0 <= c /\ c < grid_size

\* the writing loop of paste_selection over the offsets still to visit
RECURSIVE PasteLoopRecordsNew(_, _, _, _, _)
PasteLoopRecordsNew(g, undo_data, clip, start, offs) ==
  IF offs = <<>> THEN [grid |-> g, undo_data |-> undo_data]
  ELSE LET target_row == start[1] + offs[1][1]
           target_col == start[2] + offs[1][2]
           color == clip[offs[1][1] + 1][offs[1][2] + 1]
       IN  IF InGrid(target_row, target_col)
              /\ g[<<target_row, target_col>>] # color
           THEN PasteLoopRecordsNew(
                  [g EXCEPT ![<<target_row, target_col>>] = color],
                  Append(undo_data, <<target_row, target_col, color>>),
                  clip, start, Tail(offs))
           ELSE PasteLoopRecordsNew(g, undo_data, clip, start, Tail(offs))

RECURSIVE PasteLoop(_, _, _, _, _)
PasteLoop(g, undo_data, clip, start, offs) ==
  IF offs = <<>> THEN [grid |-> g, undo_data |-> undo_data]
  ELSE LET target_row == start[1] + offs[1][1]
           target_col == start[2] + offs[1][2]
           color == clip[offs[1][1] + 1][offs[1][2] + 1]
       IN  IF InGrid(target_row, target_col)
              /\ g[<<target_row, target_col>>] # color
           THEN PasteLoop([g EXCEPT ![<<target_row, target_col>>] = color],
                          Append(undo_data, <<target_row, target_col,
                                              g[<<target_row, target_col>>]>>),
                          clip, start, Tail(offs))
           ELSE PasteLoop(g, undo_data, clip, start, Tail(offs))

\* paste_selection's anchor: the selection start, or (0,0) without one
PasteStartAtOrigin == <<0, 0>>

PasteStart == IF selection_start # None THEN selection_start ELSE <<0, 0>>

(***************************************************************************)
(* Observers.  They record what happened and are never read by a handler.  *)
(***************************************************************************)
\* run holds one entry per paint stroke, copy, cut or paste that ran back to
\* back: the grid before it, whether it appended a stroke to the undo log,
\* whether that evicted the oldest stroke, and whether it is a paint stroke
\* still being drawn.  undone counts the undo calls that came right after.
\* Any other handler in between empties the record.
RunEntry(op, appended, open) ==
  [op |-> op, grid |-> grid_data, appended |-> appended,
   evicted |-> (appended /\ Len(undo_history) = max_undo), open |-> open]

\* the newest recorded operation is a paint stroke still being drawn
RunOpen == run # <<>> /\ run[Len(run)].open

\* sequences that are followed: paint strokes, and copy then paste
Follows(a, b) ==
  \/ a = "paint" /\ b = "paint"
  \/ a = "copy" /\ b = "paste"

RunPush(e) ==
  LET r == IF undone = 0 /\ run # <<>> /\ ~RunOpen
              /\ Follows(run[Len(run)].op, e.op)
           THEN run ELSE <<>>
      a == Append(r, e)
  IN  IF Len(a) > MaxRun THEN Tail(a) ELSE a

RunForget == run' = <<>> /\ undone' = 0

MarkDragForget ==
  drag_first' = None /\ drag_marks0' = {} /\ drag_touched' = {}
MarkDragKeep == UNCHANGED <<drag_marks0, drag_touched, drag_first>>
\* switching the tool while the button is held ends the observed mark drag
MarkDragInterrupt == IF b1_down THEN MarkDragForget ELSE MarkDragKeep

\* log_obs, where it is switched on, holds for every stroke of the undo log
\* the grid as it was just before the stroke's first edit (before), and
\* the same for the open stroke once it holds a triple (open).
LogKeep == UNCHANGED log_obs

LogGrows(before, g) ==
  IF Len(before) = max_undo THEN Append(Tail(before), g) ELSE Append(before, g)

\* a press or drag took the open stroke from old to new
LogOpen(old, new) ==
  log_obs' = IF ~log_obs.on THEN log_obs
             ELSE IF new = <<>> THEN [log_obs EXCEPT !.open = None]
             ELSE IF old = <<>> THEN [log_obs EXCEPT !.open = <<grid_data>>]
             ELSE log_obs

\* the release closes the open stroke
LogRelease ==
  log_obs' = IF ~log_obs.on THEN log_obs
             ELSE [on |-> TRUE, open |-> None,
                   before |-> IF current_stroke # <<>>
                              THEN LogGrows(log_obs.before, log_obs.open[1])
                              ELSE log_obs.before]

\* a cut or paste appended a stroke, or not
LogAppend(appended) ==
  log_obs' = IF log_obs.on /\ appended
             THEN [log_obs EXCEPT !.before = LogGrows(@, grid_data)]
             ELSE log_obs

\* undo popped a stroke, if there was one
LogPop ==
  log_obs' = IF log_obs.on /\ undo_history # <<>>
             THEN [log_obs EXCEPT !.before = SubSeq(@, 1, Len(@) - 1)]
             ELSE log_obs

(***************************************************************************)
(* load_project: the stored grid is copied cell by cell, over as many rows *)
(* and columns as both the file and the grid have; no value is inspected.  *)
(***************************************************************************)
\* the values a cell of a project file holds in the model
ProjectValues == {default_color, white, not_a_color}

\* the project files of the model: none, or "grid_data" with up to
\* grid_size rows of equal length
ProjectFiles ==
  {None} \cup
  UNION {[1 .. h -> [1 .. w -> ProjectValues]] :
           h \in 1 .. grid_size, w \in 1 .. grid_size}

load_project_same_size(g, loaded_grid) ==
  IF loaded_grid = None \/ Len(loaded_grid) # grid_size THEN g
  ELSE [c \in Cells |->
          IF c[2] < Min(Len(loaded_grid[c[1] + 1]), grid_size)
          THEN loaded_grid[c[1] + 1][c[2] + 1]
          ELSE g[c]]

load_project(g, loaded_grid) ==
  IF loaded_grid = None THEN g
  ELSE [c \in Cells |->
          IF c[1] < Min(Len(loaded_grid), grid_size)
             /\ c[2] < Min(Len(loaded_grid[c[1] + 1]), grid_size)
          THEN loaded_grid[c[1] + 1][c[2] + 1]
          ELSE g[c]]

\* stored grids of any shape: up to grid_size + 1 rows, each of up to
\* grid_size + 1 cells of two colours
StoredRows ==
  UNION {[1 .. w -> {white, first_color}] : w \in 0 .. grid_size + 1}
StoredGrids == UNION {[1 .. h -> StoredRows] : h \in 0 .. grid_size + 1}

\* self.grid_data as __init__ builds it
default_grid == [p \in Cells |-> default_color]

\* grid_data as json.dump writes it: the list of its rows
GridColumns(g) ==
  [r \in 1 .. grid_size |-> [c \in 1 .. grid_size |-> g[<<c - 1, r - 1>>]]]

\* (GridColumns would write the list of its columns)
GridRows(g) ==
  [r \in 1 .. grid_size |-> [c \in 1 .. grid_size |-> g[<<r - 1, c - 1>>]]]

\* list(self.marked_tiles): the marks in any order
Orderings(S) ==
  {q \in [1 .. Cardinality(S) -> S] :
     \A i, j \in 1 .. Cardinality(S) : q[i] = q[j] => i = j}

\* A project document: each of the keys "grid_data" and "marked_tiles" is
\* absent (None) or holds a JSON list <<"list", l>>; "marked_tiles" may
\* also hold a JSON number <<"number">>.
ProjectDoc(grid, marks) == [grid_data |-> grid, marked_tiles |-> marks]

\* the document holding the stored grid rows and no marks; no file for None
GridOnly(rows) ==
  IF rows = None THEN None ELSE ProjectDoc(<<"list", rows>>, None)

\* set(tuple(tile) for tile in project["marked_tiles"])
TileSet(tiles) == {tiles[k] : k \in 1 .. Len(tiles)}

\* load_project on the grid and marks of __init__: the grid is copied
\* first; iterating a number under "marked_tiles" raises TypeError, which
\* the except clause swallows, and the copied cells stay.
load_project_file(project) ==
  [grid_data |->
     IF project = None THEN default_grid
     ELSE IF project.grid_data = None THEN default_grid
     ELSE load_project(default_grid, project.grid_data[2]),
   marked_tiles |->
     IF project = None THEN {}
     ELSE IF project.marked_tiles = None THEN {}
     ELSE IF project.marked_tiles[1] = "list"
          THEN TileSet(project.marked_tiles[2])
     ELSE {}]

(***************************************************************************)
(* Settings: the palette of __init__, load_settings, save_settings.        *)
(***************************************************************************)
black == "#000000"

\* self.colors as __init__ builds it
initial_colors ==
  [i \in 1 .. max_colors |-> IF i = 1 THEN first_color ELSE white]

\* seq[:n]
Take(seq, n) == SubSeq(seq, 1, Min(n, Len(seq)))

\* the colours a settings file of the model lists
SettingsColors == {first_color, black}

\* lists of up to n colours
ColorLists(n) == UNION {[1 .. k -> SettingsColors] : k \in 0 .. n}

\* The settings files of the model: no file (None), or a document in which
\* each of the keys "colors" and "recent_colors" is absent (None) or holds
\* a JSON list <<"list", l>>, also one longer than the program keeps.
SettingsFiles ==
  {None} \cup
  [colors : {None} \cup {<<"list", l>> : l \in ColorLists(max_colors + 1)},
   recent_colors :
     {None} \cup {<<"list", l>> : l \in ColorLists(max_recent_colors + 1)}]

\* Documents whose "colors" is a JSON string <<"str", characters>> instead
\* of a list: the strings "#" and "#ff".
MalformedSettingsFiles ==
  [colors : {<<"str", <<"#">> >>, <<"str", <<"#", "f", "f">> >>},
   recent_colors :
     {None} \cup {<<"list", l>> : l \in ColorLists(max_recent_colors + 1)}]

\* settings["colors"][:max_colors], padded with white
PadTrunc(list) ==
  [i \in 1 .. max_colors |->
     IF i <= Len(Take(list, max_colors)) THEN list[i] ELSE white]

\* load_settings: the palette and the recent colours after reading file.
\* A string under "colors" is sliced like a list and assigned (a Python
\* string, kept here as the sequence of its characters); then append
\* (l.1154) or the button update (l.1157) raises, the except clause
\* swallows it and "recent_colors" is never read.
load_settings(file) ==
  [colors |->
     IF file = None THEN initial_colors
     ELSE IF file.colors = None THEN initial_colors
     ELSE IF file.colors[1] = "str" THEN Take(file.colors[2], max_colors)
     ELSE PadTrunc(file.colors[2]),
   recent_colors |->
     IF file = None THEN <<>>
     ELSE IF file.colors # None /\ file.colors[1] = "str" THEN <<>>
     ELSE IF file.recent_colors = None THEN <<>>
     ELSE Take(file.recent_colors[2], max_recent_colors)]

\* save_settings: the document written
save_settings(cols, recent) ==
  [colors |-> <<"list", cols>>, recent_colors |-> <<"list", recent>>]

(***************************************************************************)
(* Initial state: KnittingDesigner.__init__.  load_project, its last step,  *)
(* copies the grid stored in the project file, if there is one.            *)
(***************************************************************************)
StartState(project, file) ==
  [grid_data |-> load_project_file(project).grid_data,
   colors |-> load_settings(file).colors,
   selected_color_index |-> 0,
   mark_mode |-> FALSE,
   is_dragging |-> FALSE,
   current_stroke |-> <<>>,
   undo_history |-> <<>>,
   selection_start |-> None,
   selection_end |-> None,
   is_selecting |-> FALSE,
   clipboard |-> None,
   marked_tiles |-> load_project_file(project).marked_tiles,
   mark_adding |-> "unset",
   tile_size |-> init_tile_size,
   recent_colors |-> load_settings(file).recent_colors,
   picker |-> None,
   picker_result |-> None]

\* the state __init__ builds from the two files; on_disk is the project
\* file left on disk afterwards, observe switches log_obs on
InitObserved(project, file, on_disk, observe) ==
  LET st == StartState(project, file) IN
  /\ grid_data = st.grid_data
  /\ colors = st.colors
  /\ selected_color_index = st.selected_color_index
  /\ mark_mode = st.mark_mode
  /\ is_dragging = st.is_dragging
  /\ current_stroke = st.current_stroke
  /\ undo_history = st.undo_history
  /\ selection_start = st.selection_start
  /\ selection_end = st.selection_end
  /\ is_selecting = st.is_selecting
  /\ clipboard = st.clipboard
  /\ marked_tiles = st.marked_tiles
  /\ mark_adding = st.mark_adding
  /\ tile_size = st.tile_size
  /\ recent_colors = st.recent_colors
  /\ picker = st.picker
  /\ picker_result = st.picker_result
  /\ settings_file = file
  /\ project_file = on_disk
  /\ b1_down = FALSE
  /\ b3_down = FALSE
  /\ run = <<>>
  /\ undone = 0
  /\ drag_marks0 = {}
  /\ drag_touched = {}
  /\ drag_first = None
  /\ saved = None
  /\ drag_adding_set = FALSE
  /\ log_obs = [on |-> observe, before |-> <<>>, open |-> None]

InitFiles(project, file, on_disk) ==
  InitObserved(project, file, on_disk, FALSE)

InitState(project, file) == InitFiles(project, file, project)

\* main: the program is closed and started again; __init__ builds the
\* state anew from the two files as they are on disk.
main ==
  LET st == StartState(project_file, settings_file) IN
  /\ grid_data' = st.grid_data
  /\ colors' = st.colors
  /\ selected_color_index' = st.selected_color_index
  /\ mark_mode' = st.mark_mode
  /\ is_dragging' = st.is_dragging
  /\ current_stroke' = st.current_stroke
  /\ undo_history' = st.undo_history
  /\ selection_start' = st.selection_start
  /\ selection_end' = st.selection_end
  /\ is_selecting' = st.is_selecting
  /\ clipboard' = st.clipboard
  /\ marked_tiles' = st.marked_tiles
  /\ mark_adding' = st.mark_adding
  /\ tile_size' = st.tile_size
  /\ recent_colors' = st.recent_colors
  /\ picker' = st.picker
  /\ picker_result' = st.picker_result
  /\ UNCHANGED <<settings_file, project_file>>
  /\ b1_down' = FALSE
  /\ b3_down' = FALSE
  /\ RunForget
  /\ MarkDragForget
  /\ UNCHANGED saved
  /\ drag_adding_set' = FALSE
  /\ log_obs' = [log_obs EXCEPT !.before = <<>>, !.open = None]

\* save_project (Control-s): grid and marks are written to the project file
save_project ==
  /\ picker = None
  /\ \E tiles \in Orderings(marked_tiles) :
       project_file' = ProjectDoc(<<"list", GridRows(grid_data)>>,
                                  <<"list", tiles>>)
  /\ UNCHANGED <<grid_data, colors, selected_color_index, mark_mode,
                 is_dragging, current_stroke, undo_history, selection_start,
                 selection_end, is_selecting, clipboard, marked_tiles,
                 mark_adding, tile_size, recent_colors, picker, picker_result,
                 settings_file, b1_down, b3_down>>
  /\ RunForget
  /\ MarkDragKeep
  /\ saved' = <<[grid_data |-> grid_data, marked_tiles |-> marked_tiles]>>
  /\ UNCHANGED drag_adding_set
  /\ LogKeep

(***************************************************************************)
(* Primary button: on_canvas_click, on_canvas_drag, on_canvas_release.     *)
(***************************************************************************)
on_canvas_click(x, y) ==
  LET pos == get_tile_at(x, y) IN
  /\ MainWindowPress(pos # None /\ mark_mode)
  /\ ~b1_down
  /\ b1_down' = TRUE
  /\ UNCHANGED <<colors, selected_color_index, mark_mode, undo_history,
                 selection_start, selection_end, is_selecting, clipboard,
                 tile_size, b3_down>>
  /\ IF pos = None
     THEN UNCHANGED <<grid_data, is_dragging, current_stroke, marked_tiles,
                      mark_adding>>
     ELSE IF mark_mode
     THEN /\ is_dragging' = TRUE
          /\ mark_adding' = IF pos \notin marked_tiles THEN "adding" ELSE "removing"
          /\ marked_tiles' = toggle_mark(marked_tiles, pos)
          /\ UNCHANGED <<grid_data, current_stroke>>
     ELSE LET p == paint_tile(grid_data, <<>>, pos) IN
          /\ is_dragging' = TRUE
          /\ grid_data' = p.grid
          /\ current_stroke' = p.stroke
          /\ UNCHANGED <<marked_tiles, mark_adding>>
  /\ IF pos = None \/ mark_mode THEN LogKeep
     ELSE LogOpen(<<>>, paint_tile(grid_data, <<>>, pos).stroke)
  /\ IF mark_mode
     THEN /\ RunForget
          /\ IF pos = None THEN MarkDragForget
             ELSE /\ drag_first' = pos
                  /\ drag_marks0' = marked_tiles
                  /\ drag_touched' = {pos}
     ELSE /\ run' = RunPush(RunEntry("paint", FALSE, TRUE))
          /\ undone' = 0
          /\ MarkDragForget

on_canvas_drag(x, y) ==
  LET pos == get_tile_at(x, y)
      p == paint_tile(grid_data, current_stroke, pos)
      acts == is_dragging /\ pos # None
  IN
  /\ MainWindow
  /\ b1_down
  /\ UNCHANGED <<colors, selected_color_index, mark_mode, is_dragging,
                 undo_history, selection_start, selection_end, is_selecting,
                 clipboard, mark_adding, tile_size, b1_down, b3_down>>
  /\ IF ~acts
     THEN UNCHANGED <<grid_data, current_stroke, marked_tiles>>
     ELSE IF mark_mode
     THEN /\ marked_tiles' = IF DragToggles(pos)
                             THEN toggle_mark(marked_tiles, pos)
                             ELSE marked_tiles
          /\ UNCHANGED <<grid_data, current_stroke>>
     ELSE /\ Len(p.stroke) <= MaxStroke
          /\ grid_data' = p.grid
          /\ current_stroke' = p.stroke
          /\ UNCHANGED marked_tiles
  /\ IF ~acts \/ mark_mode THEN LogKeep
     ELSE LogOpen(current_stroke, p.stroke)
  /\ IF RunOpen /\ ~mark_mode THEN UNCHANGED <<run, undone>> ELSE RunForget
  /\ IF acts /\ mark_mode /\ drag_first # None
     THEN /\ drag_touched' = drag_touched \cup {pos}
          /\ UNCHANGED <<drag_marks0, drag_first>>
     ELSE MarkDragKeep

on_canvas_release_appends_empty ==
  /\ MainWindowPress(FALSE)
  /\ LogRelease
  /\ b1_down
  /\ b1_down' = FALSE
  /\ is_dragging' = FALSE
  /\ undo_history' = AppendStroke(undo_history, current_stroke)
  /\ current_stroke' = <<>>
  /\ UNCHANGED <<grid_data, colors, selected_color_index, mark_mode,
                 selection_start, selection_end, is_selecting, clipboard,
                 marked_tiles, mark_adding, tile_size, b3_down>>
  /\ IF RunOpen
     THEN /\ run' = [run EXCEPT ![Len(run)] =
                       [@ EXCEPT !.open = FALSE,
                                 !.appended = (current_stroke # <<>>),
                                 !.evicted = (current_stroke # <<>>
                                              /\ Len(undo_history) = max_undo)]]
          /\ undone' = undone
     ELSE RunForget
  /\ MarkDragForget

on_canvas_release ==
  /\ MainWindowPress(FALSE)
  /\ LogRelease
  /\ b1_down
  /\ b1_down' = FALSE
  /\ is_dragging' = FALSE
  /\ undo_history' = IF current_stroke # <<>>
                     THEN AppendStroke(undo_history, current_stroke)
                     ELSE undo_history
  /\ current_stroke' = <<>>
  /\ UNCHANGED <<grid_data, colors, selected_color_index, mark_mode,
                 selection_start, selection_end, is_selecting, clipboard,
                 marked_tiles, mark_adding, tile_size, b3_down>>
  /\ IF RunOpen
     THEN /\ run' = [run EXCEPT ![Len(run)] =
                       [@ EXCEPT !.open = FALSE,
                                 !.appended = (current_stroke # <<>>),
                                 !.evicted = (current_stroke # <<>>
                                              /\ Len(undo_history) = max_undo)]]
          /\ undone' = undone
     ELSE RunForget
  /\ MarkDragForget

(***************************************************************************)
(* Tool choice: select_color, toggle_mark_mode.                            *)
(***************************************************************************)
select_color(index) ==
  /\ MainWindow
  /\ LogKeep
  /\ selected_color_index' = index
  /\ mark_mode' = FALSE
  /\ UNCHANGED <<grid_data, colors, is_dragging, current_stroke, undo_history,
                 selection_start, selection_end, is_selecting, clipboard,
                 marked_tiles, mark_adding, tile_size, b1_down, b3_down>>
  /\ RunForget
  /\ MarkDragInterrupt

\* toggle_mark_mode without the deselection of l.741
toggle_mark_mode_keeps_color ==
  /\ MainWindow
  /\ LogKeep
  /\ mark_mode' = TRUE
  /\ UNCHANGED selected_color_index
  /\ UNCHANGED <<grid_data, colors, is_dragging, current_stroke, undo_history,
                 selection_start, selection_end, is_selecting, clipboard,
                 marked_tiles, mark_adding, tile_size, b1_down, b3_down>>
  /\ RunForget
  /\ IF mark_mode THEN MarkDragKeep ELSE MarkDragInterrupt

toggle_mark_mode ==
  /\ MainWindow
  /\ LogKeep
  /\ mark_mode' = TRUE
  /\ selected_color_index' = -1
  /\ UNCHANGED <<grid_data, colors, is_dragging, current_stroke, undo_history,
                 selection_start, selection_end, is_selecting, clipboard,
                 marked_tiles, mark_adding, tile_size, b1_down, b3_down>>
  /\ RunForget
  /\ IF mark_mode THEN MarkDragKeep ELSE MarkDragInterrupt

(***************************************************************************)
(* zoom, undo, clear_grid.                                                 *)
(***************************************************************************)
zoom_unclamped(direction) ==
  /\ MainWindow
  /\ LogKeep
  /\ tile_size' = IF direction > 0 THEN tile_size + 1 ELSE tile_size - 1
  /\ UNCHANGED <<grid_data, colors, selected_color_index, mark_mode,
                 is_dragging, current_stroke, undo_history, selection_start,
                 selection_end, is_selecting, clipboard, marked_tiles,
                 mark_adding, b1_down, b3_down>>
  /\ RunForget
  /\ MarkDragKeep

zoom_restarts_stroke(direction) ==
  /\ MainWindow
  /\ LogKeep
  /\ tile_size' = IF direction > 0
                  THEN Min(tile_size + 1, max_tile_size)
                  ELSE Max(tile_size - 1, min_tile_size)
  /\ current_stroke' = <<>>
  /\ UNCHANGED <<grid_data, colors, selected_color_index, mark_mode,
                 is_dragging, undo_history, selection_start,
                 selection_end, is_selecting, clipboard, marked_tiles,
                 mark_adding, b1_down, b3_down>>
  /\ RunForget
  /\ MarkDragKeep

zoom(direction) ==
  /\ MainWindow
  /\ LogKeep
  /\ tile_size' = IF direction > 0
                  THEN Min(tile_size + 1, max_tile_size)
                  ELSE Max(tile_size - 1, min_tile_size)
  /\ UNCHANGED <<grid_data, colors, selected_color_index, mark_mode,
                 is_dragging, current_stroke, undo_history, selection_start,
                 selection_end, is_selecting, clipboard, marked_tiles,
                 mark_adding, b1_down, b3_down>>
  /\ RunForget
  /\ MarkDragKeep

undo ==
  /\ MainWindow
  /\ LogPop
  /\ IF undo_history = <<>>
     THEN UNCHANGED <<grid_data, undo_history>>
     ELSE /\ undo_history' = SubSeq(undo_history, 1, Len(undo_history) - 1)
          /\ grid_data' = RestoreStroke(grid_data, undo_history[Len(undo_history)])
  /\ UNCHANGED <<colors, selected_color_index, mark_mode, is_dragging,
                 current_stroke, selection_start, selection_end, is_selecting,
                 clipboard, marked_tiles, mark_adding, tile_size,
                 b1_down, b3_down>>
  /\ IF RunOpen \/ undone >= Len(run)
     THEN RunForget
     ELSE run' = run /\ undone' = undone + 1
  /\ MarkDragKeep

clear_grid_clears_marks ==
  /\ MainWindow
  /\ LogKeep
  /\ grid_data' = default_grid
  /\ marked_tiles' = {}
  /\ UNCHANGED <<colors, selected_color_index, mark_mode, is_dragging,
                 current_stroke, undo_history, selection_start, selection_end,
                 is_selecting, clipboard, mark_adding, tile_size,
                 b1_down, b3_down>>
  /\ RunForget
  /\ MarkDragKeep

clear_grid ==
  /\ MainWindow
  /\ LogKeep
  /\ grid_data' = default_grid
  /\ UNCHANGED <<colors, selected_color_index, mark_mode, is_dragging,
                 current_stroke, undo_history, selection_start, selection_end,
                 is_selecting, clipboard, marked_tiles, mark_adding, tile_size,
                 b1_down, b3_down>>
  /\ RunForget
  /\ MarkDragKeep

(***************************************************************************)
(* Secondary button: on_selection_start / _drag / _end, clear_selection.   *)
(***************************************************************************)
on_selection_start_keeps_end(x, y) ==
  LET pos == get_tile_at(x, y) IN
  /\ MainWindow
  /\ LogKeep
  /\ ~b3_down
  /\ b3_down' = TRUE
  /\ selection_end' = selection_end
  /\ selection_start' = pos
  /\ is_selecting' = (pos # None)
  /\ UNCHANGED <<grid_data, colors, selected_color_index, mark_mode,
                 is_dragging, current_stroke, undo_history, clipboard,
                 marked_tiles, mark_adding, tile_size, b1_down>>
  /\ RunForget
  /\ MarkDragKeep

on_selection_start(x, y) ==
  LET pos == get_tile_at(x, y) IN
  /\ MainWindow
  /\ LogKeep
  /\ ~b3_down
  /\ b3_down' = TRUE
  \* clear_selection() first, then the new start corner
  /\ selection_end' = None
  /\ selection_start' = pos
  /\ is_selecting' = (pos # None)
  /\ UNCHANGED <<grid_data, colors, selected_color_index, mark_mode,
                 is_dragging, current_stroke, undo_history, clipboard,
                 marked_tiles, mark_adding, tile_size, b1_down>>
  /\ RunForget
  /\ MarkDragKeep

on_selection_drag(x, y) ==
  LET pos == get_tile_at(x, y) IN
  /\ MainWindow
  /\ LogKeep
  /\ b3_down
  /\ selection_end' = IF is_selecting /\ selection_start # None /\ pos # None
                      THEN pos ELSE selection_end
  /\ UNCHANGED <<grid_data, colors, selected_color_index, mark_mode,
                 is_dragging, current_stroke, undo_history, selection_start,
                 is_selecting, clipboard, marked_tiles, mark_adding, tile_size,
                 b1_down, b3_down>>
  /\ RunForget
  /\ MarkDragKeep

on_selection_end(x, y) ==
  LET pos == get_tile_at(x, y) IN
  /\ MainWindow
  /\ LogKeep
  /\ b3_down
  /\ b3_down' = FALSE
  /\ is_selecting' = FALSE
  /\ selection_end' = IF is_selecting /\ pos # None THEN pos ELSE selection_end
  /\ UNCHANGED <<grid_data, colors, selected_color_index, mark_mode,
                 is_dragging, current_stroke, undo_history, selection_start,
                 clipboard, marked_tiles, mark_adding, tile_size, b1_down>>
  /\ RunForget
  /\ MarkDragKeep

clear_selection ==
  /\ MainWindow
  /\ LogKeep
  /\ selection_start' = None
  /\ selection_end' = None
  /\ is_selecting' = FALSE
  /\ UNCHANGED <<grid_data, colors, selected_color_index, mark_mode,
                 is_dragging, current_stroke, undo_history, clipboard,
                 marked_tiles, mark_adding, tile_size, b1_down, b3_down>>
  /\ RunForget
  /\ MarkDragKeep

(***************************************************************************)
(* copy_selection, cut_selection, paste_selection.                         *)
(***************************************************************************)
copy_selection ==
  LET bounds == get_selection_bounds IN
  /\ MainWindow
  /\ LogKeep
  /\ clipboard' = IF bounds = None THEN clipboard
                  ELSE CopyBlock(grid_data, bounds)
  /\ UNCHANGED <<grid_data, colors, selected_color_index, mark_mode,
                 is_dragging, current_stroke, undo_history, selection_start,
                 selection_end, is_selecting, marked_tiles, mark_adding,
                 tile_size, b1_down, b3_down>>
  /\ IF bounds = None THEN RunForget
     ELSE run' = RunPush(RunEntry("copy", FALSE, FALSE)) /\ undone' = 0
  /\ MarkDragKeep

cut_selection ==
  LET bounds == get_selection_bounds
      r == CutLoop(grid_data, <<>>, RectCells(bounds))
  IN
  /\ MainWindow
  /\ LogAppend(bounds # None /\ r.undo_data # <<>>)
  /\ UNCHANGED <<colors, selected_color_index, mark_mode, is_dragging,
                 current_stroke, selection_start, selection_end, is_selecting,
                 marked_tiles, mark_adding, tile_size, b1_down, b3_down>>
  /\ MarkDragKeep
  /\ IF bounds = None
     THEN /\ UNCHANGED <<grid_data, undo_history, clipboard>>
          /\ RunForget
     ELSE /\ clipboard' = CopyBlock(grid_data, bounds)
          /\ grid_data' = r.grid
          /\ undo_history' = IF r.undo_data # <<>>
                             THEN AppendStroke(undo_history, r.undo_data)
                             ELSE undo_history
          /\ run' = RunPush(RunEntry("cut", r.undo_data # <<>>, FALSE))
          /\ undone' = 0

paste_selection_consumes ==
  LET start == PasteStart
      r == PasteLoop(grid_data, <<>>, clipboard, start, ClipOffsets(clipboard))
  IN
  /\ MainWindow
  /\ LogAppend(clipboard # None /\ r.undo_data # <<>>)
  /\ UNCHANGED <<colors, selected_color_index, mark_mode, is_dragging,
                 current_stroke, selection_start, is_selecting,
                 marked_tiles, mark_adding, tile_size, b1_down, b3_down>>
  /\ MarkDragKeep
  /\ clipboard' = None
  /\ IF clipboard = None
     THEN /\ UNCHANGED <<grid_data, undo_history, selection_end>>
          /\ RunForget
     ELSE /\ grid_data' = r.grid
          /\ undo_history' = IF r.undo_data # <<>>
                             THEN AppendStroke(undo_history, r.undo_data)
                             ELSE undo_history
          /\ selection_end' =
               IF selection_start # None
               THEN <<Min(start[1] + Len(clipboard) - 1, grid_size - 1),
                      Min(start[2] + Len(clipboard[1]) - 1, grid_size - 1)>>
               ELSE selection_end
          /\ run' = RunPush(RunEntry("paste", r.undo_data # <<>>, FALSE))
          /\ undone' = 0

paste_selection_keeps_end ==
  LET start == PasteStart
      r == PasteLoop(grid_data, <<>>, clipboard, start, ClipOffsets(clipboard))
  IN
  /\ MainWindow
  /\ LogAppend(clipboard # None /\ r.undo_data # <<>>)
  /\ UNCHANGED <<colors, selected_color_index, mark_mode, is_dragging,
                 current_stroke, selection_start, is_selecting, clipboard,
                 marked_tiles, mark_adding, tile_size, b1_down, b3_down>>
  /\ MarkDragKeep
  /\ UNCHANGED selection_end
  /\ IF clipboard = None
     THEN /\ UNCHANGED <<grid_data, undo_history>>
          /\ RunForget
     ELSE /\ grid_data' = r.grid
          /\ undo_history' = IF r.undo_data # <<>>
                             THEN AppendStroke(undo_history, r.undo_data)
                             ELSE undo_history
          /\ run' = RunPush(RunEntry("paste", r.undo_data # <<>>, FALSE))
          /\ undone' = 0

paste_selection ==
  LET start == PasteStart
      r == PasteLoop(grid_data, <<>>, clipboard, start, ClipOffsets(clipboard))
  IN
  /\ MainWindow
  /\ LogAppend(clipboard # None /\ r.undo_data # <<>>)
  /\ UNCHANGED <<colors, selected_color_index, mark_mode, is_dragging,
                 current_stroke, selection_start, is_selecting, clipboard,
                 marked_tiles, mark_adding, tile_size, b1_down, b3_down>>
  /\ MarkDragKeep
  /\ IF clipboard = None
     THEN /\ UNCHANGED <<grid_data, undo_history, selection_end>>
          /\ RunForget
     ELSE /\ grid_data' = r.grid
          /\ undo_history' = IF r.undo_data # <<>>
                             THEN AppendStroke(undo_history, r.undo_data)
                             ELSE undo_history
          /\ selection_end' =
               IF selection_start # None
               THEN <<Min(start[1] + Len(clipboard) - 1, grid_size - 1),
                      Min(start[2] + Len(clipboard[1]) - 1, grid_size - 1)>>
               ELSE selection_end
          /\ run' = RunPush(RunEntry("paste", r.undo_data # <<>>, FALSE))
          /\ undone' = 0

(***************************************************************************)
(* ModernColorPicker and edit_color.  A colour of the palette is a string; *)
(* the text of the picker's hex entry is a sequence of characters.  The    *)
(* picker's current_hue, current_sat and current_val are kept as the RGB   *)
(* triple they were computed from by colorsys.rgb_to_hsv (only the hex     *)
(* entry and the recent swatches set them in the model, not the wheel).    *)
(***************************************************************************)
HexDigitChars ==
  <<"0", "1", "2", "3", "4", "5", "6", "7",
    "8", "9", "a", "b", "c", "d", "e", "f">>

\* f"{v:02x}" for v in 0 .. 255
HexByte(v) == HexDigitChars[(v \div 16) + 1] \o HexDigitChars[(v % 16) + 1]

\* _get_hex's format of an RGB triple
HexOf(rgb) == "#" \o HexByte(rgb[1]) \o HexByte(rgb[2]) \o HexByte(rgb[3])

\* the RGB triples of the colours the model can come to hold
KnownRgb ==
  {<<0, 0, 0>>, <<255, 0, 0>>, <<255, 255, 255>>, <<245, 245, 245>>,
   <<15, 255, 255>>, <<58, 110, 165>>, <<57, 110, 165>>, <<57, 109, 165>>,
   <<57, 108, 165>>}

\* the triple _set_color_from_hex reads from a well-formed "#rrggbb"
RgbOfColor(color) == CHOOSE rgb \in KnownRgb : HexOf(rgb) = color

\* _get_rgb: hsv_to_rgb of the current HSV, each component times 255 and
\* truncated.  In floating point this is not always the triple the HSV was
\* computed from; these are colorsys's results for the triples of KnownRgb.
get_rgb(rgb) ==
  CASE rgb = <<58, 110, 165>> -> <<57, 110, 165>>
    [] rgb = <<57, 110, 165>> -> <<57, 109, 165>>
    [] rgb = <<57, 109, 165>> -> <<57, 108, 165>>
    [] OTHER -> rgb

get_hex(rgb) == HexOf(get_rgb(rgb))

\* str.strip() and str.lstrip("#") on a sequence of characters
RECURSIVE LStrip(_, _)
LStrip(q, ch) ==
  IF q # <<>> /\ q[1] = ch THEN LStrip(Tail(q), ch) ELSE q

RECURSIVE RStrip(_, _)
RStrip(q, ch) ==
  IF q # <<>> /\ q[Len(q)] = ch THEN RStrip(SubSeq(q, 1, Len(q) - 1), ch)
  ELSE q

Strip(q) == RStrip(LStrip(q, " "), " ")

IsHexDigit(ch) == \E k \in 1 .. 16 : HexDigitChars[k] = ch
DigitValue(ch) == (CHOOSE k \in 1 .. 16 : HexDigitChars[k] = ch) - 1

\* int(q, 16): an optional sign, then hex digits (the characters of the
\* model hold no "_", "x" or upper-case digit).  ParsesInt16 tells whether
\* it returns, Int16 what.
Digits(q) == IF q # <<>> /\ q[1] \in {"+", "-"} THEN Tail(q) ELSE q

ParsesInt16(q) ==
  Digits(q) # <<>> /\ \A k \in 1 .. Len(Digits(q)) : IsHexDigit(Digits(q)[k])

RECURSIVE DigitsValue(_)
DigitsValue(q) ==
  IF q = <<>> THEN 0
  ELSE 16 * DigitsValue(SubSeq(q, 1, Len(q) - 1)) + DigitValue(q[Len(q)])

Int16(q) ==
  IF q[1] = "-" THEN 0 - DigitsValue(Digits(q)) ELSE DigitsValue(Digits(q))

\* _set_color_from_hex on entry text: the triple the new HSV is computed
\* from (the old one when the length is not 6), or a ValueError raised by
\* a slice that does not parse, before anything is assigned
set_color_from_hex(rgb, hex_color) ==
  LET h == LStrip(hex_color, "#")
      r == SubSeq(h, 1, 2)
      g == SubSeq(h, 3, 4)
      b == SubSeq(h, 5, 6)
  IN  IF Len(h) # 6 THEN [ValueError |-> FALSE, rgb |-> rgb]
      ELSE IF ParsesInt16(r) /\ ParsesInt16(g) /\ ParsesInt16(b)
           THEN [ValueError |-> FALSE, rgb |-> <<Int16(r), Int16(g), Int16(b)>>]
           ELSE [ValueError |-> TRUE, rgb |-> rgb]

\* the picker's HSV after _on_hex_change with the entry holding text
hex_change(rgb, text) ==
  LET hex_val == LStrip(Strip(text), "#")
  IN  IF Len(hex_val) = 6 /\ ParsesInt16(hex_val)
      THEN set_color_from_hex(rgb, hex_val).rgb
      ELSE rgb

\* the picker leaves everything of the main window alone
PickerFrame ==
  /\ UNCHANGED <<grid_data, selected_color_index, mark_mode, is_dragging,
                 current_stroke, undo_history, selection_start,
                 selection_end, is_selecting, clipboard, marked_tiles,
                 mark_adding, tile_size, project_file, b1_down, b3_down>>
  /\ RunForget
  /\ MarkDragKeep
  /\ UNCHANGED <<saved, drag_adding_set, log_obs>>

\* edit_color up to ask_color's wait_window: the picker opens on the slot's
\* colour (ModernColorPicker.__init__)
edit_color(index) ==
  /\ picker = None
  /\ ~b1_down /\ ~b3_down
  /\ picker' = <<[index |-> index,
                  hsv_of |-> RgbOfColor(PyIndex(colors, index))]>>
  /\ UNCHANGED <<colors, recent_colors, picker_result, settings_file>>
  /\ PickerFrame

on_hex_change(text) ==
  /\ picker # None
  /\ picker' = <<[picker[1] EXCEPT !.hsv_of = hex_change(@, text)]>>
  /\ UNCHANGED <<colors, recent_colors, picker_result, settings_file>>
  /\ PickerFrame

select_recent(k) ==
  /\ picker # None
  /\ k \in 1 .. Len(recent_colors)
  /\ picker' = <<[picker[1] EXCEPT !.hsv_of = RgbOfColor(recent_colors[k])]>>
  /\ UNCHANGED <<colors, recent_colors, picker_result, settings_file>>
  /\ PickerFrame

\* recent_colors after a confirmed colour: removed if present, put first,
\* cut to max_recent_colors
RECURSIVE Remove(_, _)
Remove(list, color) ==
  IF list = <<>> THEN <<>>
  ELSE IF list[1] = color THEN Tail(list)
  ELSE <<list[1]>> \o Remove(Tail(list), color)

add_recent_no_remove(recent, color) ==
  Take(<<color>> \o recent, max_recent_colors)

add_recent(recent, color) ==
  Take(<<color>> \o Remove(recent, color), max_recent_colors)

\* _on_cancel, and edit_color after ask_color returned None
on_cancel_saves ==
  /\ picker # None
  /\ picker' = None
  /\ picker_result' = None
  /\ settings_file' = save_settings(colors, recent_colors)
  /\ UNCHANGED <<colors, recent_colors>>
  /\ PickerFrame

on_cancel ==
  /\ picker # None
  /\ picker' = None
  /\ picker_result' = None
  /\ UNCHANGED <<colors, recent_colors, settings_file>>
  /\ PickerFrame

\* _on_ok, and edit_color after ask_color returned the colour
on_ok ==
  /\ picker # None
  /\ LET color == get_hex(picker[1].hsv_of)
         index == picker[1].index
     IN  /\ picker_result' = <<color>>
         /\ colors' = [colors EXCEPT ![index + 1] = color]
         /\ recent_colors' = add_recent(recent_colors, color)
         /\ settings_file' = save_settings(colors', recent_colors')
  /\ picker' = None
  /\ PickerFrame

(***************************************************************************)
(* Specifications.                                                         *)
(***************************************************************************)
\* started from a project file holding the stored rows (none for None)
\* that has been removed from disk since; no settings file
InitWith(rows) == InitFiles(GridOnly(rows), None, None)

\* no project file on disk
Init == InitWith(None)

\* a project file that held any grid of the background colour and white
InitLoaded ==
  \E loaded_grid \in [Cells -> {default_color, white}] :
    InitWith(GridRows(loaded_grid))

\* any project file of the model, loaded by __init__ over the default grid
InitFromFile == \E file \in ProjectFiles : InitState(GridOnly(file), None)

\* any settings file of the model, loaded by __init__; no project file
InitSettings == \E file \in SettingsFiles : InitState(None, file)

\* any settings file of the model, also a malformed one
InitAnySettings ==
  \E file \in SettingsFiles \cup MalformedSettingsFiles :
    InitState(None, file)

\* The project files of the model for saving and loading: no file, or a
\* document with or without a full grid of the background colour and
\* white, and with no marks, up to two marks in either order, or a number
\* where the list of marks should be.
MarkLists == UNION {Orderings(S) : S \in {T \in SUBSET Cells : Cardinality(T) <= 2}}
ProjectDocs ==
  {None} \cup
  {ProjectDoc(grid, marks) :
     grid \in {None} \cup
              {<<"list", GridRows(g)>> : g \in [Cells -> {default_color, white}]},
     marks \in {None, <<"number">>} \cup {<<"list", q>> : q \in MarkLists}}

InitProject == \E project \in ProjectDocs : InitState(project, None)

\* as InitLoaded, with the grids before the strokes of the undo log observed
InitLogObserved ==
  \E loaded_grid \in [Cells -> {default_color, white}] :
    InitObserved(GridOnly(GridRows(loaded_grid)), None, None, TRUE)

\* a project file holding a stored grid of any shape
InitStored ==
  \E rows \in StoredGrids : InitState(ProjectDoc(<<"list", rows>>, None), None)

\* pointer positions over the first cell and off the grid
CornerCoords == {-1, 0}

\* no pointer button is held: the user is between two gestures
Idle == ~b1_down /\ ~b3_down

Click(C) == \E x \in C, y \in C : on_canvas_click(x, y)
Drag(C) == \E x \in C, y \in C : on_canvas_drag(x, y)
Release == on_canvas_release
SelectColor == \E index \in 0 .. PaintSlots - 1 : select_color(index)
ToggleMarkMode == toggle_mark_mode
Undo == undo
ClearGrid == clear_grid
SelectionStart(C) == \E x \in C, y \in C : on_selection_start(x, y)
SelectionDrag(C) == \E x \in C, y \in C : on_selection_drag(x, y)
SelectionEnd(C) == \E x \in C, y \in C : on_selection_end(x, y)
ClearSelection == clear_selection
Copy == copy_selection
Cut == cut_selection
Paste == paste_selection
Zoom ==
  \E direction \in {-1, 1} :
    /\ zoom(direction)
    /\ tile_size' - init_tile_size <= ZoomSpan
    /\ init_tile_size - tile_size' <= ZoomSpan

\* Every handler, in any order, also while a button is held; the pointer
\* stays over the first cell or off the grid.
Next ==
  \/ Click(CornerCoords) \/ Drag(CornerCoords) \/ Release
  \/ SelectColor \/ ToggleMarkMode \/ Undo \/ ClearGrid \/ Zoom
  \/ SelectionStart(CornerCoords) \/ SelectionDrag(CornerCoords)
  \/ SelectionEnd(CornerCoords) \/ ClearSelection
  \/ Copy \/ Cut \/ Paste

Spec == Init /\ [][Next]_vars

\* Painting over the whole grid, colour choice and undo.
NextPaint ==
  \/ Click(PointerCoords) \/ Drag(PointerCoords) \/ Release
  \/ SelectColor \/ Undo

SpecPaint == InitLoaded /\ [][NextPaint]_vars

\* Selecting and cutting rectangles of a loaded grid, and undo, one gesture
\* or command at a time.
NextCut ==
  \/ (Idle /\ SelectionStart(PointerCoords)) \/ SelectionDrag(PointerCoords)
  \/ SelectionEnd(PointerCoords)
  \/ (Idle /\ ClearSelection) \/ (Idle /\ Cut) \/ (Idle /\ Undo)

SpecCut == InitLoaded /\ [][NextCut]_vars

\* Selecting, copying and pasting rectangles of a loaded grid, and undo, one
\* gesture or command at a time.
NextPaste ==
  \/ (Idle /\ SelectionStart(PointerCoords)) \/ SelectionEnd(PointerCoords)
  \/ (Idle /\ Copy) \/ (Idle /\ Paste) \/ (Idle /\ Undo)

SpecPaste == InitLoaded /\ [][NextPaste]_vars

\* Marking over the whole grid, with tool changes at any time.
NextMark ==
  \/ Click(PointerCoords) \/ Drag(PointerCoords) \/ Release
  \/ ToggleMarkMode

SpecMark == Init /\ [][NextMark]_vars

\* Start-up from any project file, then painting the first cell, undo and
\* clearing, one gesture or command at a time.
NextLoad ==
  \/ (Idle /\ Click(CornerCoords)) \/ Release
  \/ (Idle /\ Undo) \/ (Idle /\ ClearGrid)

SpecLoad == InitFromFile /\ [][NextLoad]_vars

\* Selecting rectangles of a loaded grid in any direction, copying and
\* cutting them, one gesture or command at a time.
NextSelect ==
  \/ (Idle /\ SelectionStart(PointerCoords)) \/ SelectionDrag(PointerCoords)
  \/ SelectionEnd(PointerCoords)
  \/ (Idle /\ ClearSelection) \/ (Idle /\ Copy) \/ (Idle /\ Cut)

SpecSelect == InitLoaded /\ [][NextSelect]_vars

\* Zooming over the whole range of cell sizes, and painting the first cell.
ZoomAny == \E direction \in {-1, 1} : zoom(direction)

NextZoom == ZoomAny \/ (Idle /\ Click(CornerCoords)) \/ Release

SpecZoom == Init /\ [][NextZoom]_vars

\* texts typed into the picker's hex entry: white and black
PaletteEntries ==
  {<<"f", "f", "f", "f", "f", "f">>, <<"#", "0", "0", "0", "0", "0", "0">>}

\* texts typed into the picker's hex entry: 5 to 7 characters of a hex
\* digit, a letter that is none and a sign, bare or after " #"
EntryChars == {"f", "g", "+"}
HexEntries ==
  {pre \o body : pre \in {<<>>, <<" ", "#">>},
                 body \in UNION {[1 .. n -> EntryChars] : n \in 5 .. 7}}

EditColor == \E index \in 0 .. max_colors - 1 : edit_color(index)
HexChange(E) == \E text \in E : on_hex_change(text)
SelectRecent == \E k \in 1 .. max_recent_colors : select_recent(k)
OnOk == on_ok
OnCancel == on_cancel

\* Start-up from any settings file, then editing palette slots.
NextPalette ==
  \/ EditColor \/ HexChange(PaletteEntries) \/ SelectRecent
  \/ OnOk \/ OnCancel

SpecPalette == InitSettings /\ [][NextPalette]_vars

\* Start-up from any settings file, also a malformed one, then painting the
\* first cell with the first palette slot.
NextSettings ==
  \/ (Idle /\ Click(CornerCoords)) \/ Release \/ (Idle /\ Undo)
  \/ (Idle /\ ClearGrid)

SpecSettings == InitAnySettings /\ [][NextSettings]_vars

\* Start-up from a stored grid of any shape, then painting the first cell,
\* saving and starting again.
SaveProject == save_project
Main == main

NextStored ==
  \/ (Idle /\ Click(CornerCoords)) \/ Release
  \/ (Idle /\ SaveProject) \/ (Idle /\ Main)

SpecStored == InitStored /\ [][NextStored]_vars

\* Start-up from any project file, then painting and marking the first
\* cell, saving and starting again, one gesture or command at a time.
NextProject ==
  \/ (Idle /\ Click(CornerCoords)) \/ Release
  \/ (Idle /\ ToggleMarkMode) \/ (Idle /\ SelectColor)
  \/ (Idle /\ SaveProject) \/ (Idle /\ Main)

SpecProject == InitProject /\ [][NextProject]_vars

\* Painting the first cell of a loaded grid, Control-z at any time, also
\* while the primary button is held, and the clear button between
\* gestures, with the grids before the strokes of the undo log observed.
NextUndo ==
  \/ Click(CornerCoords) \/ Drag(CornerCoords) \/ Release
  \/ Undo \/ (Idle /\ ClearGrid)

SpecUndo == InitLogObserved /\ [][NextUndo]_vars

\* Choosing among all palette slots and the mark tool, and pressing,
\* moving and releasing the primary button on the first cell.
SelectAnyColor == \E index \in 0 .. max_colors - 1 : select_color(index)

NextTool ==
  \/ Click(CornerCoords) \/ Drag(CornerCoords) \/ Release
  \/ SelectAnyColor \/ ToggleMarkMode

SpecTool == Init /\ [][NextTool]_vars

\* the project a build whose grid has n rows and columns saves: a grid of
\* the background colour and the marks given
SavedBySize(n, tiles) ==
  ProjectDoc(<<"list", [r \in 1 .. n |-> [c \in 1 .. n |-> default_color]]>>,
             <<"list", tiles>>)

\* the lists of marks such a build can save: none, or one cell of its grid
SavedMarks(n) ==
  {<<>>} \cup {<<t>> : t \in (0 .. n - 1) \X (0 .. n - 1)}

\* project files saved with grids of 1 to grid_size + 1 rows and columns
SizedProjects ==
  UNION {{SavedBySize(n, tiles) : tiles \in SavedMarks(n)} :
           n \in 1 .. grid_size + 1}

InitSized == \E project \in SizedProjects : InitState(project, None)

\* Start-up from a project saved with a grid of any size, then marking the
\* first cell, saving and starting again, one gesture or command at a time.
NextSized ==
  \/ (Idle /\ Click(CornerCoords)) \/ Release
  \/ (Idle /\ ToggleMarkMode)
  \/ (Idle /\ SaveProject) \/ (Idle /\ Main)

SpecSized == InitSized /\ [][NextSized]_vars

\* Typing into the hex entry of the picker.
NextPicker ==
  \/ EditColor \/ HexChange(HexEntries) \/ OnOk \/ OnCancel

SpecPicker == Init /\ [][NextPicker]_vars

(***************************************************************************)
(* Properties.                                                             *)
(***************************************************************************)
Last(q) == q[Len(q)]
Front(q) == SubSeq(q, 1, Len(q) - 1)

\* the last k recorded operations are finished paint strokes
LastArePaint(k) ==
  /\ k <= Len(run)
  /\ \A i \in (Len(run) - k + 1) .. Len(run) :
       run[i].op = "paint" /\ ~run[i].open

\* ... and each of them appended a stroke to the undo log
LastAppended(k) ==
  \A i \in (Len(run) - k + 1) .. Len(run) : run[i].appended

\* the grid as it was before the k-th most recent recorded operation
GridBefore(k) == run[Len(run) - k + 1].grid

\* C1 as stated: after k paint strokes followed by k calls of undo, the grid
\* equals the grid before the first of those strokes.
C1_PaintUndoAsStated ==
  (undone >= 1 /\ LastArePaint(undone)) => grid_data = GridBefore(undone)

\* C1 amended: after k <= max_undo paint strokes, each of which changed at
\* least one cell (and so appended a stroke), followed by k calls of undo,
\* the grid equals the grid before the first of those strokes.
C1_PaintUndoRestores ==
  (undone >= 1 /\ undone <= max_undo /\ LastArePaint(undone)
     /\ LastAppended(undone))
  => grid_data = GridBefore(undone)

\* two strokes that changed cells, then two undo calls, back at the grid
\* before the first stroke
C1_Witness ==
  /\ undone = 2 /\ LastArePaint(2) /\ LastAppended(2)
  /\ grid_data = GridBefore(2)
  /\ GridBefore(1) # GridBefore(2)

\* the handler step appends a stroke to the undo log
ReleaseAppends == on_canvas_release /\ current_stroke # <<>>
CutAppends ==
  /\ cut_selection
  /\ get_selection_bounds # None
  /\ \E k \in DOMAIN RectCells(get_selection_bounds) :
       grid_data[RectCells(get_selection_bounds)[k]] # default_color
PasteAppends ==
  /\ paste_selection
  /\ clipboard # None
  /\ \E i \in 1 .. Len(clipboard) : \E j \in 1 .. Len(clipboard[1]) :
       /\ InGrid(PasteStart[1] + i - 1, PasteStart[2] + j - 1)
       /\ grid_data[<<PasteStart[1] + i - 1, PasteStart[2] + j - 1>>]
            # clipboard[i][j]

\* C2: the undo log never holds more than max_undo strokes, and a stroke
\* appended by pointer release, cut or paste to a full log removes the oldest
\* stroke and keeps the others in order (to a log that is not full it is
\* simply appended).
C2_UndoLogCapacity ==
  /\ [](Len(undo_history) <= max_undo)
  /\ [][(ReleaseAppends \/ CutAppends \/ PasteAppends) =>
         /\ undo_history' # <<>>
         /\ Last(undo_history') # <<>>
         /\ Front(undo_history') =
              IF Len(undo_history) = max_undo
              THEN Tail(undo_history) ELSE undo_history]_vars

\* a paste has just evicted the oldest stroke of a full log
C2_Witness ==
  /\ run # <<>> /\ Last(run).evicted /\ Last(run).op = "paste"
  /\ Len(undo_history) = max_undo

\* the stroke as the set of its triples
StrokeTriples(w) == {w[k] : k \in 1 .. Len(w)}

\* the log after a stroke was appended to log h: one more at the end, the
\* oldest gone if h was full
AppendedTo(h, h2) ==
  /\ h2 # <<>>
  /\ Front(h2) = IF Len(h) = max_undo THEN Tail(h) ELSE h

CopyJustRan == run # <<>> /\ Last(run).op = "copy" /\ undone = 0
CutJustRan == run # <<>> /\ Last(run).op = "cut" /\ undone = 0
PasteJustRan == run # <<>> /\ Last(run).op = "paste" /\ undone = 0

\* the selection was made from its top-left corner
StartIsTopLeft ==
  /\ get_selection_bounds # None
  /\ selection_start = <<get_selection_bounds[1], get_selection_bounds[2]>>

\* C3 as stated: for every selection, copy followed by paste with the
\* selection unchanged changes no grid cell and appends no stroke.
C3_CopyPasteAsStated ==
  [][(CopyJustRan /\ paste_selection)
       => UNCHANGED <<grid_data, undo_history>>]_vars

\* C3 amended: for every selection whose start corner (where the secondary
\* button was pressed) is its top-left corner, copy followed by paste with
\* the selection unchanged changes no grid cell and appends no stroke.
C3_CopyPasteIdempotent ==
  [][(CopyJustRan /\ StartIsTopLeft /\ paste_selection)
       => UNCHANGED <<grid_data, undo_history>>]_vars

\* a 2 x 2 block of two colours was copied and pasted back from its
\* top-left corner
C3_Witness ==
  /\ Len(run) = 2 /\ run[1].op = "copy" /\ run[2].op = "paste" /\ undone = 0
  /\ StartIsTopLeft
  /\ Len(clipboard) = 2 /\ Len(clipboard[1]) = 2
  /\ clipboard[1][1] # clipboard[2][2]
  /\ grid_data = run[1].grid

\* the cells of the selected rectangle
RectSet(b) ==
  {c \in Cells : b[1] <= c[1] /\ c[1] <= b[3] /\ b[2] <= c[2] /\ c[2] <= b[4]}

\* C4 as stated: from any state with an active selection, cut followed
\* immediately by undo leaves every cell, inside and outside the rectangle,
\* with the colour it had before the cut.
C4_CutUndoAsStated ==
  [][(CutJustRan /\ undo) => grid_data' = Last(run).grid]_vars

\* C4 amended: when the selected rectangle holds at least one cell that is
\* not the default colour, cut followed immediately by undo leaves every
\* cell, inside and outside the rectangle, with the colour it had before the
\* cut.
C4_CutUndoRestores ==
  [][(/\ CutJustRan
      /\ \E c \in RectSet(get_selection_bounds) :
           Last(run).grid[c] # default_color
      /\ undo)
       => grid_data' = Last(run).grid]_vars

\* a cut that cleared cells was undone and the grid is as before the cut
C4_Witness ==
  /\ run # <<>> /\ Last(run).op = "cut" /\ Last(run).appended /\ undone = 1
  /\ grid_data = Last(run).grid
  /\ \E c \in Cells : grid_data[c] # default_color

\* C5: during a drag that was pressed in mark mode on a cell that was
\* unmarked, every cell touched so far is marked and no mark present at the
\* press is gone; pressed on a marked cell, every cell touched so far is
\* unmarked and no mark was added.
C5_MarkDragOneDirection ==
  drag_first # None =>
    IF drag_first \notin drag_marks0
    THEN drag_touched \subseteq marked_tiles /\ drag_marks0 \subseteq marked_tiles
    ELSE drag_touched \cap marked_tiles = {} /\ marked_tiles \subseteq drag_marks0

\* a removing drag took two marks away and passed over an unmarked cell
C5_Witness ==
  /\ drag_first # None /\ drag_first \in drag_marks0
  /\ Cardinality(drag_marks0 \ marked_tiles) >= 2
  /\ drag_touched \ drag_marks0 # {}

\* C6: undo on an empty log changes nothing; otherwise it removes exactly the
\* newest stroke and gives every cell recorded in it its recorded previous
\* colour (the triples are restored in recorded order, so of two triples for
\* one cell the later decides), leaving every other cell unchanged.
C6_UndoOneStroke ==
  [][undo =>
       IF undo_history = <<>>
       THEN UNCHANGED prog_vars
       ELSE LET w == Last(undo_history) IN
            /\ undo_history' = Front(undo_history)
            /\ \A c \in Cells :
                 LET ks == {k \in 1 .. Len(w) : <<w[k][1], w[k][2]>> = c}
                 IN  IF ks = {}
                     THEN grid_data'[c] = grid_data[c]
                     ELSE grid_data'[c] =
                            w[CHOOSE k \in ks : \A m \in ks : m <= k][3]]_vars

\* a stroke over two cells was painted and then undone
C6_Witness ==
  /\ undone = 1 /\ LastArePaint(1) /\ LastAppended(1)
  /\ grid_data = GridBefore(1)
  /\ Len(undo_history) = 1
  /\ \E c \in Cells : grid_data[c] = white

PasteChanged ==
  {c \in Cells :
     LET i == c[1] - PasteStart[1] + 1
         j == c[2] - PasteStart[2] + 1
     IN  /\ i \in 1 .. Len(clipboard) /\ j \in 1 .. Len(clipboard[1])
         /\ grid_data[c] # clipboard[i][j]}

\* a paste appends at most one stroke, holding exactly the changed cells
\* with their colours before the paste
PasteStrokeExact ==
  paste_selection =>
    IF clipboard = None THEN undo_history' = undo_history
    ELSE IF PasteChanged = {} THEN undo_history' = undo_history
    ELSE /\ AppendedTo(undo_history, undo_history')
         /\ StrokeTriples(Last(undo_history')) =
              {<<c[1], c[2], grid_data[c]>> : c \in PasteChanged}
         /\ Len(Last(undo_history')) = Cardinality(PasteChanged)

\* C8 as stated: a paste appends at most one stroke, holding exactly the
\* changed cells with their previous colours, and one undo right after the
\* paste restores the grid as it was before the paste.
C8_PasteStrokeAsStated ==
  [][/\ PasteStrokeExact
     /\ (PasteJustRan /\ undo) => grid_data' = Last(run).grid]_vars

\* C8 amended: a paste appends at most one stroke, holding exactly the
\* changed cells with their previous colours, and if the paste changed at
\* least one cell, one undo right after it restores the grid as it was
\* before the paste.
C8_PasteStroke ==
  [][/\ PasteStrokeExact
     /\ (PasteJustRan /\ Last(run).grid # grid_data /\ undo)
          => grid_data' = Last(run).grid]_vars

\* a paste that changed cells was undone and the grid is as before the paste
C8_Witness ==
  /\ run # <<>> /\ Last(run).op = "paste" /\ Last(run).appended /\ undone = 1
  /\ grid_data = Last(run).grid
  /\ clipboard # None

\* C9: cut stores the rectangle's colours as they were in the clipboard,
\* sets every cell of the rectangle to the default colour and no other cell,
\* and records exactly the cells that were not the default colour, each with
\* its previous colour (no stroke when there is none).
C9_CutEffect ==
  [][(cut_selection /\ get_selection_bounds # None) =>
       LET b == get_selection_bounds
           nondef == {c \in RectSet(b) : grid_data[c] # default_color}
       IN  /\ Len(clipboard') = b[3] - b[1] + 1
           /\ \A i \in 1 .. Len(clipboard') :
                /\ Len(clipboard'[i]) = b[4] - b[2] + 1
                /\ \A j \in 1 .. Len(clipboard'[i]) :
                     clipboard'[i][j] = grid_data[<<b[1] + i - 1, b[2] + j - 1>>]
           /\ \A c \in Cells :
                grid_data'[c] =
                  IF c \in RectSet(b) THEN default_color ELSE grid_data[c]
           /\ IF nondef = {} THEN undo_history' = undo_history
              ELSE /\ AppendedTo(undo_history, undo_history')
                   /\ StrokeTriples(Last(undo_history')) =
                        {<<c[1], c[2], grid_data[c]>> : c \in nondef}
                   /\ Len(Last(undo_history')) = Cardinality(nondef)]_vars

\* a rectangle holding default and other cells has just been cut
C9_Witness ==
  /\ CutJustRan /\ Last(run).appended
  /\ \E i \in 1 .. Len(clipboard) : \E j \in 1 .. Len(clipboard[i]) :
       clipboard[i][j] = default_color
  /\ \E i \in 1 .. Len(clipboard) : \E j \in 1 .. Len(clipboard[i]) :
       clipboard[i][j] # default_color

\* C10: the clipboard changes only in a copy or cut with an active
\* selection, which stores the selected block; paste and every other
\* handler leave it as it is.
C10_ClipboardKept ==
  [][clipboard' # clipboard =>
       /\ copy_selection \/ cut_selection
       /\ get_selection_bounds # None
       /\ \A i \in 1 .. Len(clipboard') : \A j \in 1 .. Len(clipboard'[i]) :
            clipboard'[i][j] =
              grid_data[<<get_selection_bounds[1] + i - 1,
                          get_selection_bounds[2] + j - 1>>]]_vars

\* a paste has changed the grid and the clipboard is still there
C10_Witness ==
  /\ run # <<>> /\ Last(run).op = "paste" /\ Last(run).appended
  /\ clipboard # None
  /\ grid_data[<<0, 0>>] = clipboard[1][1]

\* the hex colours among the values the model's cells can hold
HexColors == {default_color, first_color, white}

\* C11 as stated: in every reachable state, whatever the project file held,
\* the grid has a cell for every position of the N x N grid and every cell
\* holds a hex colour.
C11_GridHoldsHexColours ==
  /\ DOMAIN grid_data = Cells
  /\ \A c \in Cells : grid_data[c] \in HexColors

\* a press or drag of either button at a position off the grid
OutsidePress(x, y) ==
  /\ get_tile_at(x, y) = None
  /\ \/ on_canvas_click(x, y) \/ on_canvas_drag(x, y)
     \/ on_selection_start(x, y) \/ on_selection_drag(x, y)

\* C12 as stated: a press or drag of the primary or secondary button at a
\* position off the grid leaves the grid, the marks, the undo log, the open
\* stroke, the selection corners and the clipboard unchanged.
C12_OutsidePointerNoOp ==
  [][(\E x \in CornerCoords, y \in CornerCoords : OutsidePress(x, y))
       => UNCHANGED <<grid_data, marked_tiles, undo_history, current_stroke,
                      selection_start, selection_end, clipboard>>]_vars

\* the least and the greatest of a set of numbers
SetMin(T) == CHOOSE m \in T : \A n \in T : m <= n
SetMax(T) == CHOOSE m \in T : \A n \in T : m >= n

\* the rectangle spanned by a set of corner cells, whatever their order
NormRect(S) ==
  <<SetMin({p[1] : p \in S}), SetMin({p[2] : p \in S}),
    SetMax({p[1] : p \in S}), SetMax({p[2] : p \in S})>>

BothCorners == selection_start # None /\ selection_end # None

\* the clipboard holds the colours grid g has in rectangle b
HoldsBlock(clip, g, b) ==
  /\ Len(clip) = b[3] - b[1] + 1
  /\ \A i \in 1 .. Len(clip) :
       /\ Len(clip[i]) = b[4] - b[2] + 1
       /\ \A j \in 1 .. Len(clip[i]) :
            clip[i][j] = g[<<b[1] + i - 1, b[2] + j - 1>>]

\* C13: the selected rectangle depends only on the unordered pair of corner
\* cells (it is min row, min col, max row, max col of the two), copy stores
\* the block of that rectangle, and cut stores the same block and changes
\* cells of that rectangle only, clearing each of them.
C13_SelectionOrderIndependent ==
  /\ [](BothCorners =>
          get_selection_bounds = NormRect({selection_start, selection_end}))
  /\ [][(BothCorners /\ copy_selection) =>
          /\ HoldsBlock(clipboard', grid_data,
                        NormRect({selection_start, selection_end}))
          /\ grid_data' = grid_data]_vars
  /\ [][(BothCorners /\ cut_selection) =>
          /\ HoldsBlock(clipboard', grid_data,
                        NormRect({selection_start, selection_end}))
          /\ \A c \in Cells :
               grid_data'[c] =
                 IF c \in RectSet(NormRect({selection_start, selection_end}))
                 THEN default_color ELSE grid_data[c]]_vars

\* a rectangle selected from its bottom-right to its top-left corner has
\* just been cut, and its block of two colours is in the clipboard
C13_Witness ==
  /\ run # <<>> /\ Last(run).op = "cut" /\ Last(run).appended
  /\ BothCorners
  /\ selection_start[1] > selection_end[1]
  /\ selection_start[2] > selection_end[2]
  /\ Len(clipboard) = 2 /\ clipboard[1][1] # clipboard[2][2]

\* C14: a secondary-button press on a cell leaves exactly the pressed cell
\* as start corner and no end corner, whatever selection there was, and in
\* no reachable state is there an end corner without a start corner: the
\* one pair of corners is the one selection.
C14_NewSelectionReplacesOld ==
  /\ [](selection_end # None => selection_start # None)
  /\ [][\A x \in PointerCoords, y \in PointerCoords :
          (get_tile_at(x, y) # None /\ on_selection_start(x, y)) =>
            /\ selection_start' = get_tile_at(x, y)
            /\ selection_end' = None
            /\ get_selection_bounds' = None]_vars

\* a rectangle was selected and copied, and a new selection has been started
\* on another cell: the old corners are gone
C14_Witness ==
  /\ clipboard # None /\ Len(clipboard) = 2 /\ Len(clipboard[1]) = 2
  /\ is_selecting /\ b3_down
  /\ selection_start = <<0, 1>> /\ selection_end = None

\* C15: a step that zooms in or out, and any step that changes the cell
\* pixel size, leaves the grid colours, the marks, the undo log, the open
\* stroke, the clipboard and the selection corners unchanged.
C15_ZoomKeepsContents ==
  [][(tile_size' # tile_size \/ \E direction \in {-1, 1} : zoom(direction))
       => UNCHANGED <<grid_data, marked_tiles, undo_history, current_stroke,
                      clipboard, selection_start, selection_end>>]_vars

\* zoomed in, with a stroke open, a stroke logged, a mark, a selection and
\* a clipboard
C15_Witness ==
  /\ tile_size = init_tile_size + 1
  /\ current_stroke # <<>> /\ undo_history # <<>>
  /\ marked_tiles # {} /\ clipboard # None
  /\ selection_start # None /\ selection_end # None

\* C16: the cell pixel size is always within min_tile_size .. max_tile_size;
\* a zoom in adds exactly 1 and a zoom out takes exactly 1 away, except at
\* the bound in that direction, where the size stays.
C16_ZoomRange ==
  /\ [](min_tile_size <= tile_size /\ tile_size <= max_tile_size)
  /\ [][(zoom(1) =>
            tile_size' = IF tile_size = max_tile_size THEN tile_size
                         ELSE tile_size + 1)
        /\
         (zoom(-1) =>
            tile_size' = IF tile_size = min_tile_size THEN tile_size
                         ELSE tile_size - 1)]_vars

\* zoomed in as far as it goes, with the first cell painted on the way
C16_Witness ==
  /\ tile_size = max_tile_size
  /\ grid_data[<<0, 0>>] = first_color

\* no colour is listed twice
NoDuplicate(list) ==
  \A i \in 1 .. Len(list) : \A j \in 1 .. Len(list) :
    list[i] = list[j] => i = j

\* the entries of a list that are not the colour, in their order
RECURSIVE Others(_, _)
Others(list, color) ==
  IF list = <<>> THEN <<>>
  ELSE IF list[1] = color THEN Others(Tail(list), color)
  ELSE <<list[1]>> \o Others(Tail(list), color)

\* a confirmed edit puts the confirmed colour first and keeps the other
\* entries in their order, as many as still fit
ConfirmedGoesFirst ==
  (on_ok /\ NoDuplicate(recent_colors)) =>
    /\ recent_colors'[1] = picker_result'[1]
    /\ Tail(recent_colors') =
         Take(Others(recent_colors, picker_result'[1]), max_recent_colors - 1)

C18_PaletteFixedLength ==
  /\ [](Len(colors) = max_colors)
  /\ []((settings_file # None /\ settings_file.colors # None) =>
          \A i \in 1 .. Len(colors) :
            colors[i] = IF i <= Len(settings_file.colors[2])
                        THEN settings_file.colors[2][i] ELSE white)
  /\ [][on_ok =>
          \A i \in 1 .. max_colors :
            colors'[i] = IF i = picker[1].index + 1 THEN picker_result'[1]
                         ELSE colors[i]]_vars

\* C19: a picker that closes returns a colour (that shown when it closed)
\* exactly when it was confirmed and no selection exactly when it was
\* cancelled; when it returns no selection the palette, the recent colours
\* and the saved settings are unchanged.
C19_PickerReturnsOnConfirm ==
  [][(picker # None /\ picker' = None) =>
       /\ ((picker_result' # None) <=> on_ok)
       /\ ((picker_result' = None) <=> on_cancel)
       /\ (picker_result' # None =>
             picker_result' = <<HexOf(get_rgb(picker[1].hsv_of))>>)
       /\ (picker_result' = None =>
             UNCHANGED <<colors, recent_colors, settings_file>>)]_vars

\* an edit was confirmed with white, a later picker was cancelled, and the
\* saved settings are still those of the confirmed edit
C19_Witness ==
  /\ picker = None /\ picker_result = None
  /\ \E k \in 1 .. Len(recent_colors) : recent_colors[k] = white
  /\ settings_file = save_settings(colors, recent_colors)

\* text without surrounding whitespace and without a leading #
Stripped(text) ==
  LET t == Strip(text)
  IN  IF t # <<>> /\ t[1] = "#" THEN Tail(t) ELSE t

SixHexDigits(q) == Len(q) = 6 /\ \A k \in 1 .. 6 : IsHexDigit(q[k])

\* C20 as stated: a hex entry that is not exactly 6 hexadecimal digits
\* (after stripping whitespace and a leading #) leaves the picker's hue,
\* saturation and value unchanged; an entry of exactly 6 hexadecimal
\* digits makes them those of the colour entered.
C20_HexEntryValidated ==
  [][\A text \in HexEntries :
       on_hex_change(text) =>
         LET q == Stripped(text)
         IN  picker'[1].hsv_of =
               IF SixHexDigits(q)
               THEN <<DigitsValue(SubSeq(q, 1, 2)), DigitsValue(SubSeq(q, 3, 4)),
                      DigitsValue(SubSeq(q, 5, 6))>>
               ELSE picker[1].hsv_of]_vars

\* the grid holds the stored rows over the cells both have, the colour of
\* __init__ elsewhere
CopiedAsStored(rows) ==
  \A c \in Cells :
    grid_data[c] =
      IF c[1] < Min(Len(rows), grid_size)
         /\ c[2] < Min(Len(rows[c[1] + 1]), grid_size)
      THEN rows[c[1] + 1][c[2] + 1]
      ELSE default_color

LoadedAsStored ==
  (project_file # None /\ project_file.grid_data # None) =>
    CopiedAsStored(project_file.grid_data[2])

\* C21: after every start-up the grid holds exactly the stored cells (r, c)
\* with r < min(R, N) and c < min(C_r, N) and its prior (__init__) value
\* in every other cell, whatever the stored numbers of rows and columns.
\* (Every start-up is a step of main: the first one is repeated by starting
\* again on the same file.)
C21_LoadCopiesCommonCells == [][main => LoadedAsStored']_vars

\* started from a stored grid with more rows than the grid, a first row
\* longer than the grid and a second row of one cell
C21_Witness ==
  /\ project_file # None /\ project_file.grid_data # None
  /\ LET rows == project_file.grid_data[2]
     IN  /\ Len(rows) = grid_size + 1
         /\ Len(rows[1]) = grid_size + 1
         /\ Len(rows[2]) = 1
         /\ rows[1][1] = first_color /\ rows[2][1] = white
         /\ grid_data[<<0, 0>>] = first_color
         /\ grid_data[<<1, 0>>] = white
         /\ grid_data[<<1, 1>>] = default_color
  /\ undo_history = <<>> /\ ~b1_down

\* reading the project file fails: it is missing, or the value under
\* "marked_tiles" is a number
ProjectLoadFails ==
  \/ project_file = None
  \/ (project_file.marked_tiles # None
      /\ project_file.marked_tiles[1] = "number")

\* reading the settings file fails: it is missing, or the value under
\* "colors" is a string
SettingsLoadFails ==
  \/ settings_file = None
  \/ (settings_file.colors # None /\ settings_file.colors[1] = "str")

FailedLoadGivesDefaults ==
  /\ ProjectLoadFails => (grid_data = default_grid /\ marked_tiles = {})
  /\ SettingsLoadFails => (colors = initial_colors /\ recent_colors = <<>>)

\* C22 as stated: after a start-up in which reading the project file or
\* the settings file failed, grid and marks, or palette and recent
\* colours, hold their default values, nothing partially loaded.
C22_FailedLoadGivesDefaults == [][main => FailedLoadGivesDefaults']_vars

\* C26: a start-up that reads the project file the program saved gives the
\* grid colours and the mark set that were saved.
C26_SaveLoadRoundTrip ==
  [][(main /\ saved # None) =>
       (grid_data' = saved[1].grid_data
        /\ marked_tiles' = saved[1].marked_tiles)]_vars

\* restarted from a saved project: the painted first cell, a white cell
\* and two marks are back as saved, the undo log is empty again
C26_Witness ==
  /\ saved # None
  /\ undo_history = <<>> /\ ~mark_mode /\ ~b1_down
  /\ grid_data = saved[1].grid_data
  /\ marked_tiles = saved[1].marked_tiles
  /\ grid_data[<<0, 0>>] = first_color
  /\ grid_data[<<0, 1>>] = white
  /\ grid_data[<<1, 0>>] = default_color
  /\ Cardinality(marked_tiles) = 2
  /\ <<0, 0>> \in marked_tiles

\* C23: no step that changes the mark set is a paint (a press or drag
\* outside mark mode), an undo, a cut, a paste or a clear-grid; no step
\* that changes a grid colour, the undo log or the clipboard is a press or
\* drag in mark mode; the marks change only while the primary button is
\* held in mark mode.
C23_MarksIndependentOfColour ==
  /\ [][marked_tiles' # marked_tiles =>
          ~(\/ ((Click(CornerCoords) \/ Drag(CornerCoords)) /\ ~mark_mode)
            \/ Undo \/ Cut \/ Paste \/ ClearGrid)]_vars
  /\ [][(grid_data' # grid_data \/ undo_history' # undo_history
          \/ clipboard' # clipboard) =>
          ~((Click(CornerCoords) \/ Drag(CornerCoords)) /\ mark_mode)]_vars
  /\ [][marked_tiles' # marked_tiles =>
          /\ mark_mode /\ b1_down'
          /\ UNCHANGED <<grid_data, undo_history, clipboard>>]_vars

\* a cell was marked, then painted, the stroke undone and the grid
\* cleared: the mark is still there
C23_Witness ==
  /\ marked_tiles = {<<0, 0>>}
  /\ ~mark_mode /\ ~b1_down
  /\ undo_history = <<>>
  /\ grid_data = default_grid
  /\ clipboard # None /\ clipboard[1][1] = first_color

\* the step paints cell pos with the selected colour as stated: nothing
\* changes if the cell holds it, else the cell takes it, no other cell
\* changes and the open stroke grows by <<row, col, previous colour>>
PaintsAsStated(pos) ==
  LET c == PyIndex(colors, selected_color_index)
  IN  IF grid_data[pos] = c
      THEN UNCHANGED <<grid_data, current_stroke>>
      ELSE /\ current_stroke' =
                Append(current_stroke, <<pos[1], pos[2], grid_data[pos]>>)
           /\ grid_data'[pos] = c
           /\ \A q \in Cells \ {pos} : grid_data'[q] = grid_data[q]

\* C24: every press and every drag over a cell outside mark mode paints
\* that cell as stated.
C24_PaintRecordsPrevious ==
  [][\A x, y \in PointerCoords :
       (/\ ~mark_mode /\ get_tile_at(x, y) # None
        /\ \/ on_canvas_click(x, y)
           \/ (is_dragging /\ on_canvas_drag(x, y)))
       => PaintsAsStated(get_tile_at(x, y))]_vars

\* an open stroke painted a white cell and then a cell of the background
\* colour: one triple each, holding the previous colour; a cell painted by
\* an earlier stroke is not in it
C24_Witness ==
  /\ b1_down /\ is_dragging /\ ~mark_mode
  /\ Len(current_stroke) = 2
  /\ current_stroke[1] = <<0, 0, white>>
  /\ current_stroke[2] = <<1, 1, default_color>>
  /\ grid_data[<<0, 0>>] = first_color
  /\ grid_data[<<0, 1>>] = first_color
  /\ grid_data[<<1, 1>>] = first_color

IsPrefix(p, q) == Len(p) <= Len(q) /\ SubSeq(q, 1, Len(p)) = p

\* C25: a release appends the open stroke to the undo log if it holds a
\* triple (dropping the oldest stroke of a full log) and leaves the log
\* alone otherwise, and no stroke is open after it; in every other step
\* the open stroke stays open, as it is or longer; a cut or paste that
\* changes no cell leaves the log alone; no stroke of the log is empty.
C25_StrokeClosedAtRelease ==
  /\ [](\A k \in 1 .. Len(undo_history) : undo_history[k] # <<>>)
  /\ [][on_canvas_release =>
          /\ current_stroke' = <<>> /\ ~is_dragging'
          /\ undo_history' =
               IF current_stroke = <<>> THEN undo_history
               ELSE IF Len(undo_history) < max_undo
                    THEN Append(undo_history, current_stroke)
                    ELSE Append(Tail(undo_history), current_stroke)]_vars
  /\ [][~IsPrefix(current_stroke, current_stroke') => on_canvas_release]_vars
  /\ [][(undo_history' # undo_history /\ grid_data' = grid_data) =>
          ~(Cut \/ Paste)]_vars

\* two strokes were released one after the other: the first changed a cell
\* and is the only stroke of the log, the second changed none
C25_Witness ==
  /\ Len(run) = 2 /\ undone = 0
  /\ run[1].op = "paint" /\ run[1].appended
  /\ run[2].op = "paint" /\ ~run[2].appended /\ ~run[2].open
  /\ Len(undo_history) = 1
  /\ current_stroke = <<>> /\ ~is_dragging /\ ~b1_down

\* C27: a paste with no clipboard changes nothing.  Otherwise, with the
\* anchor at the selection's start corner, or at (0,0) when there is none,
\* every cell at an offset inside the clipboard block takes the clipboard
\* colour at that offset and every other cell is unchanged; when there is a
\* start corner the end corner becomes the block's last cell, clipped to
\* the grid, else it is unchanged.
C27_PasteAtSelectionStart ==
  [][paste_selection =>
       IF clipboard = None
       THEN UNCHANGED <<grid_data, undo_history, selection_start,
                        selection_end, clipboard>>
       ELSE LET a == IF selection_start # None THEN selection_start
                     ELSE <<0, 0>>
            IN  /\ \A c \in Cells :
                     LET i == c[1] - a[1] + 1
                         j == c[2] - a[2] + 1
                     IN  grid_data'[c] =
                           IF i \in 1 .. Len(clipboard)
                              /\ j \in 1 .. Len(clipboard[1])
                           THEN clipboard[i][j] ELSE grid_data[c]
                /\ selection_end' =
                     IF selection_start # None
                     THEN <<Min(a[1] + Len(clipboard) - 1, grid_size - 1),
                            Min(a[2] + Len(clipboard[1]) - 1, grid_size - 1)>>
                     ELSE selection_end
                /\ UNCHANGED <<selection_start, clipboard>>]_vars

\* a block of two rows and two columns was pasted at a start corner in the
\* last row, first column: it changed a cell there, and the end corner is
\* the last row, second column
C27_Witness ==
  /\ PasteJustRan /\ Last(run).appended
  /\ clipboard # None /\ Len(clipboard) = 2 /\ Len(clipboard[1]) = 2
  /\ selection_start = <<grid_size - 1, 0>>
  /\ selection_end = <<grid_size - 1, 1>>
  /\ grid_data[<<grid_size - 1, 0>>] = clipboard[1][1]
  /\ grid_data[<<grid_size - 1, 0>>] # Last(run).grid[<<grid_size - 1, 0>>]

\* a paste without a start corner wrote the clipboard block at (0,0)
C27_NoStartReached ==
  /\ PasteJustRan /\ Last(run).appended
  /\ selection_start = None
  /\ grid_data[<<0, 0>>] = clipboard[1][1]
  /\ grid_data[<<0, 0>>] # Last(run).grid[<<0, 0>>]

\* C28 as stated: under any interleaving of the handlers, when undo pops a
\* stroke the grid afterwards equals the grid as it was immediately before
\* that stroke's first edit.
C28_UndoRestoresGridBeforeStroke ==
  [][(undo /\ undo_history # <<>>) =>
       grid_data' = log_obs.before[Len(log_obs.before)]]_vars

\* stroke s records no cell twice
NoCellTwice(s) ==
  \A i, j \in 1 .. Len(s) :
    (s[i][1] = s[j][1] /\ s[i][2] = s[j][2]) => i = j

\* C29 as stated: under any interleaving, also with undo while a stroke is
\* open, every stroke of the undo log records any cell at most once, and
\* the undo that pops a stroke gives every cell the stroke records the
\* colour it had before the stroke.
C29_StrokeRecordsCellOnce ==
  /\ [](\A k \in 1 .. Len(undo_history) : NoCellTwice(undo_history[k]))
  /\ [][(undo /\ undo_history # <<>>) =>
          LET s == undo_history[Len(undo_history)]
          IN  \A i \in 1 .. Len(s) :
                grid_data'[<<s[i][1], s[i][2]>>] =
                  log_obs.before[Len(log_obs.before)][<<s[i][1], s[i][2]>>]]_vars

\* C30: in every reachable state mark mode is on exactly when the selected
\* colour index is -1, and otherwise the index is a palette slot; so no
\* press or motion of the primary button paints (changes the grid or the
\* open stroke) while the index is -1.
C30_MarkModeIffNoColour ==
  /\ [](mark_mode <=> selected_color_index = -1)
  /\ [](~mark_mode => selected_color_index \in 0 .. max_colors - 1)
  /\ [][(selected_color_index = -1 /\
          <<grid_data, current_stroke>>' # <<grid_data, current_stroke>>) =>
          ~(Click(CornerCoords) \/ Drag(CornerCoords))]_vars

\* the first cell was painted with the first slot after another slot had
\* been chosen, then the mark tool was taken and the cell pressed: it is
\* marked and keeps its colour, which is not the last palette colour
C30_Witness ==
  /\ mark_mode /\ selected_color_index = -1
  /\ <<0, 0>> \in marked_tiles
  /\ grid_data[<<0, 0>>] = colors[1]
  /\ colors[1] # colors[max_colors]
  /\ Len(undo_history) = 2

\* C31 as stated: in every reachable state, also after loading a project
\* saved with a different grid size, every coordinate in the mark set lies
\* inside the current grid.
C31_MarksInsideGrid ==
  \A t \in marked_tiles :
    /\ 0 <= t[1] /\ t[1] < grid_size
    /\ 0 <= t[2] /\ t[2] < grid_size

\* C32 as stated: in every state in which a motion of the pointer over a
\* cell makes on_canvas_drag take its mark-mode branch (the primary button
\* is held, a drag is active and mark mode is on), the press that started
\* the drag has assigned mark_adding, so it is neither undefined nor left
\* over from an earlier drag, also when the tool was switched while the
\* button was held.
C32_MarkAddingSetByPress ==
  (picker = None /\ b1_down /\ is_dragging /\ mark_mode) =>
    (drag_adding_set /\ mark_adding # "unset")

=============================================================================
